---- MODULE Spec2Model ----
(***************************************************************************)
(* A model of the JobStreet scraper (selenium_jobstreet_scraper.py): the   *)
(* card extractor _extract_job_data, the paging loop scrape_jobs, the      *)
(* detail-page expander scrape_job_details, the exporter save_to_csv and   *)
(* the entry point main.                                                   *)
(*                                                                         *)
(* Text is modelled as a sequence of one-character strings, so that        *)
(* lower(), strip(), the "in" substring test, join and the regular         *)
(* expression of the job id are computed character by character.           *)
(***************************************************************************)
EXTENDS Integers, Sequences, FiniteSets, TLC

\* ------------------------------------------------------------------ bounds

\* Total page visits one scrape_jobs call may make: len(job_queries) * num_pages.
MaxVisits == 3
\* Seconds the wall clock may advance during a run.
MaxTicks == 2
\* save_to_csv calls a caller of the class may make in one process.
MaxSaves == 2

\* -------------------------------------------------------------------- text

Min(S) == CHOOSE m \in S : \A n \in S : m <= n
Max(S) == CHOOSE m \in S : \A n \in S : m >= n

UpperToLower ==
  [A |-> "a", B |-> "b", C |-> "c", D |-> "d", E |-> "e", F |-> "f", G |-> "g",
   H |-> "h", I |-> "i", J |-> "j", K |-> "k", L |-> "l", M |-> "m", N |-> "n",
   O |-> "o", P |-> "p", Q |-> "q", R |-> "r", S |-> "s", T |-> "t", U |-> "u",
   V |-> "v", W |-> "w", X |-> "x", Y |-> "y", Z |-> "z"]

\* str.lower()
lower(s) ==
  [i \in 1..Len(s) |-> IF s[i] \in DOMAIN UpperToLower THEN UpperToLower[s[i]] ELSE s[i]]

IsSpace(ch) == ch \in {" ", "\n", "\t"}

\* str.strip(): leading and trailing whitespace removed
strip(s) ==
  LET keep == {i \in 1..Len(s) : ~IsSpace(s[i])}
  IN  IF keep = {} THEN <<>> ELSE SubSeq(s, Min(keep), Max(keep))

\* Python's "needle in hay" on strings
Contains(needle, hay) ==
  \E i \in 1..(Len(hay) - Len(needle) + 1) : SubSeq(hay, i, i + Len(needle) - 1) = needle

\* sep.join(parts)
RECURSIVE join(_, _)
join(sep, parts) ==
  IF parts = <<>> THEN <<>>
  ELSE IF Len(parts) = 1 THEN parts[1]
  ELSE parts[1] \o sep \o join(sep, Tail(parts))

Digits == <<"0", "1", "2", "3", "4", "5", "6", "7", "8", "9">>
IsDigit(ch) == \E d \in 1..Len(Digits) : Digits[d] = ch

\* str(n) for n >= 0
RECURSIVE IntText(_)
IntText(n) == IF n < 10 THEN <<Digits[n + 1]>> ELSE IntText(n \div 10) \o <<Digits[(n % 10) + 1]>>

\* a zero-padded field of strftime (%Y, %m, %d, %H, %M, %S)
RECURSIVE Pad(_, _)
Pad(n, width) == IF Len(IntText(n)) >= width THEN IntText(n) ELSE <<"0">> \o Pad(n, width - 1)

\* ------------------------------------------------------------- wall clock

\* The clock counts the seconds of local time since 2024-01-01 00:00:00;
\* datetime.now() reads it.
IsLeap(y) == (y % 4 = 0 /\ y % 100 # 0) \/ y % 400 = 0
DaysInYear(y) == IF IsLeap(y) THEN 366 ELSE 365
DaysInMonth(y, m) ==
  IF m = 2 THEN (IF IsLeap(y) THEN 29 ELSE 28)
  ELSE IF m \in {4, 6, 9, 11} THEN 30 ELSE 31

RECURSIVE YearOf(_, _)
YearOf(days, y) ==
  IF days < DaysInYear(y) THEN <<y, days>> ELSE YearOf(days - DaysInYear(y), y + 1)

RECURSIVE MonthOf(_, _, _)
MonthOf(days, y, m) ==
  IF days < DaysInMonth(y, m) THEN <<m, days + 1>> ELSE MonthOf(days - DaysInMonth(y, m), y, m + 1)

\* datetime.now(): the broken-down local time of clock value t
now(t) ==
  LET yd == YearOf(t \div 86400, 2024)
      md == MonthOf(yd[2], yd[1], 1)
      r  == t % 86400
  IN  [year |-> yd[1], month |-> md[1], day |-> md[2],
       hour |-> r \div 3600, minute |-> (r % 3600) \div 60, second |-> r % 60]

\* strftime("%Y%m%d_%H%M%S")
FileStampDropSeconds(d) ==
  Pad(d.year, 4) \o Pad(d.month, 2) \o Pad(d.day, 2) \o <<"_">>
    \o Pad(d.hour, 2) \o Pad(d.minute, 2)
FileStamp(d) ==
  Pad(d.year, 4) \o Pad(d.month, 2) \o Pad(d.day, 2) \o <<"_">>
    \o Pad(d.hour, 2) \o Pad(d.minute, 2) \o Pad(d.second, 2)

\* strftime("%Y-%m-%d %H:%M:%S")
ScrapedStamp(d) ==
  Pad(d.year, 4) \o <<"-">> \o Pad(d.month, 2) \o <<"-">> \o Pad(d.day, 2) \o <<" ">>
    \o Pad(d.hour, 2) \o <<":">> \o Pad(d.minute, 2) \o <<":">> \o Pad(d.second, 2)

\* Clock values a run may start at: just before a minute, a leap day's
\* midnight and a new year turn over.
ClockStarts == {58, (60 * 86400) - 2, (366 * 86400) - 2}

\* ------------------------------------------------------ sentinels, texts

NA == <<"N", "/", "A">>
NotSpecified == <<"N", "o", "t", " ", "s", "p", "e", "c", "i", "f", "i", "e", "d">>
JobPrefix == <<"j", "o", "b", "_">>
CommaSpace == <<",", " ">>

\* the fixed vocabularies of _extract_job_data
common_skills ==
  << <<"p", "y", "t", "h", "o", "n">>,
     <<"j", "a", "v", "a">>,
     <<"s", "q", "l">>,
     <<"e", "x", "c", "e", "l">>,
     <<"c", "o", "m", "m", "u", "n", "i", "c", "a", "t", "i", "o", "n">>,
     <<"l", "e", "a", "d", "e", "r", "s", "h", "i", "p">>,
     <<"t", "e", "a", "m", "w", "o", "r", "k">>,
     <<"p", "r", "o", "j", "e", "c", "t", " ", "m", "a", "n", "a", "g", "e", "m", "e", "n", "t">>,
     <<"a", "n", "a", "l", "y", "s", "i", "s">>,
     <<"p", "r", "o", "b", "l", "e", "m", " ", "s", "o", "l", "v", "i", "n", "g">> >>
categories ==
  << <<"F", "i", "n", "a", "n", "c", "e">>,
     <<"I", "T">>,
     <<"H", "e", "a", "l", "t", "h", "c", "a", "r", "e">>,
     <<"E", "d", "u", "c", "a", "t", "i", "o", "n">>,
     <<"M", "a", "n", "u", "f", "a", "c", "t", "u", "r", "i", "n", "g">>,
     <<"S", "a", "l", "e", "s">>,
     <<"M", "a", "r", "k", "e", "t", "i", "n", "g">>,
     <<"E", "n", "g", "i", "n", "e", "e", "r", "i", "n", "g">>,
     <<"A", "d", "m", "i", "n">>,
     <<"H", "o", "s", "p", "i", "t", "a", "l", "i", "t", "y">> >>

\* element texts and link targets the cards of the model carry
TxtSeniorFinance == <<"S", "e", "n", "i", "o", "r", " ", "F", "i", "n", "a", "n", "c", "e", " ", "M", "a", "n", "a", "g", "e", "r">>
TxtPythonDev == <<"P", "y", "t", "h", "o", "n", " ", "D", "e", "v", "e", "l", "o", "p", "e", "r">>
TxtNurse == <<"N", "u", "r", "s", "e">>
TxtBlank == <<" ", " ">>
TxtPyLead == <<"U", "s", "e", "s", " ", "p", "y", "t", "h", "o", "n", " ", "a", "n", "d", " ", "l", "e", "a", "d", "e", "r", "s", "h", "i", "p", " ">>
TxtJavaSql == <<"J", "A", "V", "A", ",", " ", "S", "Q", "L">>
TxtCare == <<"p", "a", "t", "i", "e", "n", "t", " ", "c", "a", "r", "e">>
TxtAcme == <<"A", "c", "m", "e">>
TxtKL == <<"K", "u", "a", "l", "a", " ", "L", "u", "m", "p", "u", "r">>
TxtSalary == <<"R", "M", " ", "5", "0", "0", "0">>
TxtFullTime == <<"F", "u", "l", "l", " ", "t", "i", "m", "e">>
TxtAgo == <<"2", "d", " ", "a", "g", "o">>
TxtBanking == <<"B", "a", "n", "k", "i", "n", "g">>
HrefId == <<"/", "j", "o", "b", "/", "7", "4", "2", "1", "?", "r", "e", "f", "=", "s">>
HrefIdEnd == <<"/", "j", "o", "b", "/", "8", "8">>
HrefNoId == <<"/", "j", "o", "b", "s", "/", "i", "n", "-", "k", "l">>
HrefIdMid == <<"/", "j", "o", "b", "/", "5", "5", "/", "a", "p", "p", "l", "y">>

\* ------------------------------------------------------------------ cards

\* What one lookup on a card gives: the element with its raw text, a
\* NoSuchElementException, or any other exception of the driver.
Found(t) == [kind |-> "found", text |-> t]
Missing == [kind |-> "missing", text |-> <<>>]
Broken == [kind |-> "error", text |-> <<>>]
\* an <a> element without an href: get_attribute returns None
NoHref == [kind |-> "nohref", text |-> <<>>]

TextFields == {"company", "location", "description", "salary", "job_type", "posting_date"}

\* the five lookups that no heuristic reads, varied together
OtherProfiles ==
  { [company |-> Missing, location |-> Missing, salary |-> Missing,
     job_type |-> Missing, posting_date |-> Missing],
    [company |-> Found(TxtAcme), location |-> Found(TxtKL), salary |-> Found(TxtSalary),
     job_type |-> Found(TxtFullTime), posting_date |-> Found(TxtAgo)],
    [company |-> Found(TxtBlank), location |-> Found(<<>>), salary |-> Found(TxtBlank),
     job_type |-> Found(<<>>), posting_date |-> Found(TxtBlank)],
    [company |-> Found(TxtAcme), location |-> Missing, salary |-> Found(TxtSalary),
     job_type |-> Broken, posting_date |-> Missing] }

Card(t1, t2, a, d, ind, o) ==
  [title1 |-> t1, title2 |-> t2, link |-> a, description |-> d, industry |-> ind,
   company |-> o.company, location |-> o.location, salary |-> o.salary,
   job_type |-> o.job_type, posting_date |-> o.posting_date]

Title1Lookups ==
  {Missing, Broken, Found(TxtSeniorFinance), Found(TxtPythonDev), Found(TxtNurse), Found(TxtBlank)}
Title2Lookups == {Missing, Broken, Found(TxtNurse)}
LinkLookups ==
  {Missing, Broken, NoHref, Found(HrefId), Found(HrefIdEnd), Found(HrefNoId), Found(HrefIdMid)}
DescriptionLookups ==
  {Missing, Found(TxtPyLead), Found(TxtJavaSql), Found(TxtCare), Found(<<>>)}
IndustryLookups == {Missing, Found(TxtBanking), Found(<<>>)}

\* the cards handed to _extract_job_data on its own
AllCards ==
  { Card(t1, t2, a, d, ind, o) :
      t1 \in Title1Lookups, t2 \in Title2Lookups, a \in LinkLookups,
      d \in DescriptionLookups, ind \in IndustryLookups, o \in OtherProfiles }

\* the cards a results page of a scrape_jobs run may hold
TitleOnlyCard ==
  Card(Found(TxtSeniorFinance), Missing, Missing, Missing, Missing,
       [company |-> Missing, location |-> Missing, salary |-> Missing,
        job_type |-> Missing, posting_date |-> Missing])
FullCard ==
  Card(Found(TxtPythonDev), Missing, Found(HrefId), Found(TxtPyLead), Found(TxtBanking),
       [company |-> Found(TxtAcme), location |-> Found(TxtKL), salary |-> Found(TxtSalary),
        job_type |-> Found(TxtFullTime), posting_date |-> Found(TxtAgo)])
StaleCard ==
  Card(Found(TxtNurse), Missing, Broken, Found(TxtCare), Missing,
       [company |-> Missing, location |-> Missing, salary |-> Missing,
        job_type |-> Missing, posting_date |-> Missing])
PageCards == {TitleOnlyCard, FullCard, StaleCard}

\* ------------------------------------------------------ _extract_job_data

None == [kind |-> "None"]

\* random.randint(10000, 99999): the two ends of the range
RandomTokens == {10000, 99999}

\* The outer "except Exception" is entered when a lookup raises anything but
\* NoSuchElementException, or when re.search is handed the None of a link
\* without href (TypeError); the second title lookup runs only after the first
\* one missed.
ExtractRaises(job_card) ==
  \/ job_card.title1.kind = "error"
  \/ job_card.title1.kind = "missing" /\ job_card.title2.kind = "error"
  \/ job_card.link.kind \in {"error", "nohref"}
  \/ \E f \in TextFields \cup {"industry"} : job_card[f].kind = "error"

\* title: first selector group, on NoSuchElementException the second, then "N/A"
job_title_of(job_card) ==
  IF job_card.title1.kind = "found" THEN strip(job_card.title1.text)
  ELSE IF job_card.title2.kind = "found" THEN strip(job_card.title2.text)
  ELSE NA

\* one selector group per field: the stripped text, or "N/A" on NoSuchElementException
field_without_default(job_card, f) ==
  IF job_card[f].kind = "found" THEN strip(job_card[f].text) ELSE <<>>
field_of(job_card, f) ==
  IF job_card[f].kind = "found" THEN strip(job_card[f].text) ELSE NA

\* the last index of the digit run that starts at i
RunEnd(url, i) == Max({k \in i..Len(url) : \A j \in i..k : IsDigit(url[j])})

\* re.search(r'/(\d+)(?:\?|$)', url): the start of the leftmost match, 0 for no
\* match. \d+ is greedy and what follows it must be "?" or the end, so only a
\* whole digit run can match.
JobIdMatch(url) ==
  LET starts == {i \in 1..(Len(url) - 1) :
                   /\ url[i] = "/"
                   /\ IsDigit(url[i + 1])
                   /\ LET k == RunEnd(url, i + 1)
                      IN  \/ k = Len(url)
                          \/ url[k + 1] = "?"
                          \/ k + 1 = Len(url) /\ url[k + 1] = "\n"}
  IN  IF starts = {} THEN 0 ELSE Min(starts)

job_url_of(job_card) == IF job_card.link.kind = "found" THEN job_card.link.text ELSE NA

job_id_of(job_card, rand) ==
  LET url == job_card.link.text
      m   == JobIdMatch(url)
  IN  IF job_card.link.kind = "found" /\ m # 0
      THEN SubSeq(url, m + 1, RunEnd(url, m + 1))
      ELSE JobPrefix \o IntText(rand)

\* industry: the element's text, or on NoSuchElementException the first category
\* found in the title or in the description, or "Not specified"
IndustryTitleOnly(job_card) ==
  LET job_title == job_title_of(job_card)
      hits == {i \in 1..Len(categories) : Contains(lower(categories[i]), lower(job_title))}
  IN  IF job_card.industry.kind = "found" THEN strip(job_card.industry.text)
      ELSE IF hits = {} THEN NotSpecified
      ELSE categories[Min(hits)]
industry_of(job_card) ==
  LET job_title   == job_title_of(job_card)
      description == field_of(job_card, "description")
      hits == {i \in 1..Len(categories) :
                 \/ Contains(lower(categories[i]), lower(job_title))
                 \/ Contains(lower(categories[i]), lower(description))}
  IN  IF job_card.industry.kind = "found" THEN strip(job_card.industry.text)
      ELSE IF hits = {} THEN NotSpecified
      ELSE categories[Min(hits)]

\* skills: every skill found in the description, in the order of common_skills
SkillsFirstOnly(description) ==
  LET hit(s) == Contains(lower(s), lower(description))
      found  == SelectSeq(common_skills, hit)
  IN  IF found = <<>> THEN <<>> ELSE <<found[1]>>
skills_found(description) ==
  LET hit(s) == Contains(lower(s), lower(description))
  IN  SelectSeq(common_skills, hit)

skills_of(job_card) ==
  LET skills == skills_found(field_of(job_card, "description"))
  IN  IF skills # <<>> THEN join(CommaSpace, skills) ELSE NotSpecified

_extract_job_data(job_card, rand, t) ==
  IF ExtractRaises(job_card) THEN None
  ELSE [job_id       |-> job_id_of(job_card, rand),
        job_title    |-> job_title_of(job_card),
        company      |-> field_of(job_card, "company"),
        location     |-> field_of(job_card, "location"),
        description  |-> field_of(job_card, "description"),
        salary       |-> field_of(job_card, "salary"),
        job_type     |-> field_of(job_card, "job_type"),
        posting_date |-> field_of(job_card, "posting_date"),
        job_url      |-> job_url_of(job_card),
        industry     |-> industry_of(job_card),
        skills       |-> skills_of(job_card),
        scraped_date |-> ScrapedStamp(now(t))]

\* ------------------------------------------------------------------ state

VARIABLES
  clock,        \* the wall clock, in seconds
  ticks,        \* seconds the clock has advanced so far
  num_pages,    \* self.num_pages
  jobs,         \* self.jobs, the collector
  cards,        \* cards[i] is the card jobs[i] was extracted from
  job_queries,  \* the queries of the running scrape_jobs call
  pc,           \* where scrape_jobs is
  qi,           \* index of the current query in job_queries
  page,         \* the page number last taken by the page loop
  pending,      \* "return" or "raise": how scrape_jobs leaves its finally block
  visited,      \* the driver.get calls made, in order
  quit_calls,   \* driver.quit calls made
  files,        \* durable storage: path -> table
  saves,        \* the save_to_csv calls made, in order
  mainPc,       \* where main is
  dpc,          \* where scrape_job_details is
  handles,      \* driver.window_handles: the open browsing contexts, in order
  focus,        \* the browsing context the driver is switched to
  opened,       \* whether window.open has opened the auxiliary context
  details,      \* what scrape_job_details returned
  exCard,       \* the card handed to _extract_job_data
  exPc,         \* "ready" before that call, "done" after it
  exResult,     \* what the call returned
  mcall,        \* the metric function called and its arguments
  mpc,          \* "ready" before that call, "done" after it
  mresult,      \* what the metric function returned or raised
  routine,      \* the dismiss routine called
  bpc,          \* where the dismiss routine is
  bi,           \* index of the button locator the loop is at
  tried,        \* the locators tried so far, in order, each with its outcome
  clicked,      \* the number of clicks that succeeded
  bret          \* what the dismiss routine returned

scrapeVars == <<num_pages, jobs, cards, job_queries, pc, qi, page, pending,
                visited, quit_calls>>
exportVars == <<files, saves>>
clockVars == <<clock, ticks>>
detailVars == <<dpc, handles, focus, opened, details>>
extractVars == <<exCard, exPc, exResult>>
metricVars == <<mcall, mpc, mresult>>
dismissVars == <<routine, bpc, bi, tried, clicked, bret>>

vars ==
  <<clockVars, scrapeVars, exportVars, mainPc, detailVars, extractVars, metricVars,
    dismissVars>>

\* the parts of the state an entry point does not use
ScrapeIdle ==
  /\ num_pages = 0 /\ jobs = <<>> /\ cards = <<>> /\ job_queries = <<>>
  /\ pc = "idle" /\ qi = 0 /\ page = 0 /\ pending = "return" /\ visited = <<>>
  /\ quit_calls = 0
ExportIdle == files = <<>> /\ saves = <<>>
DetailsIdle ==
  /\ dpc = "idle" /\ handles = <<"primary">> /\ focus = "primary" /\ opened = FALSE
  /\ details = [full_description |-> ""]
ExtractIdle == exCard = None /\ exPc = "idle" /\ exResult = None
MetricsIdle == mcall = None /\ mpc = "idle" /\ mresult = None
DismissIdle ==
  /\ routine = "none" /\ bpc = "idle" /\ bi = 0 /\ tried = <<>> /\ clicked = 0
  /\ bret = "none"

\* ------------------------------------------------------------ scrape_jobs

\* what no step of scrape_jobs touches
others ==
  <<clock, ticks, files, saves, mainPc, dpc, handles, focus, opened, details,
    exCard, exPc, exResult, metricVars, dismissVars>>

location == <<"M", "a", "l", "a", "y", "s", "i", "a">>

\* scrape_jobs(job_queries=None)
NoQueries == <<"None">>
DefaultQueries == <<"data scientist", "data analyst", "project manager", "business analyst">>

\* the argument lists of the model: none given, empty, one and two queries, and
\* the empty query that browses by location
QueryInputs ==
  {NoQueries, <<>>, <<"data analyst">>, <<"">>, <<"data analyst", "data scientist">>}

_build_search_url(query, p) ==
  IF query # ""
  THEN [path |-> "/jobs", q |-> query, l |-> location, page |-> p]
  ELSE [path |-> "/jobs/in-", q |-> "", l |-> lower(location), page |-> p]

\* the scraper as __init__ leaves it, for a page count of at most n
Constructed(n) ==
  /\ num_pages \in 0..n
  /\ jobs = <<>> /\ cards = <<>>
  /\ job_queries = <<>> /\ pc = "idle" /\ qi = 0 /\ page = 0 /\ pending = "return"
  /\ visited = <<>> /\ quit_calls = 0

\* the call: the default list replaces None, and the query loop starts
CallScrapeJobs(inputs) ==
  /\ pc = "idle"
  /\ \E arg \in inputs :
       LET queries == IF arg = NoQueries THEN DefaultQueries ELSE arg
       IN  /\ Len(queries) * num_pages <= MaxVisits
           /\ job_queries' = queries
  /\ pc' = "query" /\ qi' = 0 /\ page' = 0
  /\ UNCHANGED <<num_pages, jobs, cards, pending, visited, quit_calls>>
  /\ UNCHANGED others

\* for query in job_queries: the next query
NextQuery ==
  /\ pc = "query" /\ qi < Len(job_queries)
  /\ qi' = qi + 1 /\ page' = 0 /\ pc' = "page"
  /\ UNCHANGED <<num_pages, jobs, cards, job_queries, pending, visited, quit_calls>>
  /\ UNCHANGED others

\* the query loop is exhausted: on to the finally block, to return
QueriesDone ==
  /\ pc = "query" /\ qi = Len(job_queries)
  /\ pc' = "finally" /\ pending' = "return"
  /\ UNCHANGED <<num_pages, jobs, cards, job_queries, qi, page, visited, quit_calls>>
  /\ UNCHANGED others

\* the head of the page loop and driver.get(url), common to every page visit;
\* the log keeps how the visit ended
Navigate(outcome) ==
  /\ pc = "page" /\ page < num_pages
  /\ page' = page + 1
  /\ visited' = Append(visited, [qi |-> qi, page |-> page + 1,
                                 url |-> _build_search_url(job_queries[qi], page + 1),
                                 outcome |-> outcome])

\* driver.get, the scroll or find_elements raises: caught, printed, next page
PageRaises ==
  /\ Navigate("raised")
  /\ pc' = "page"
  /\ UNCHANGED <<num_pages, jobs, cards, job_queries, qi, pending, quit_calls>>
  /\ UNCHANGED others

\* the wait for the first card times out: printed, next page
PageTimeout ==
  /\ Navigate("timeout")
  /\ pc' = "page"
  /\ UNCHANGED <<num_pages, jobs, cards, job_queries, qi, pending, quit_calls>>
  /\ UNCHANGED others

\* the wait succeeded but find_elements returned no card: break, the page loop
\* is left
PageNoCards ==
  /\ Navigate("no cards")
  /\ pc' = "between"
  /\ UNCHANGED <<num_pages, jobs, cards, job_queries, qi, pending, quit_calls>>
  /\ UNCHANGED others

\* the records of a page's cards: a card whose extraction gave None is dropped,
\* the others get their search_query and are appended
RECURSIVE PageRecords(_, _, _, _)
PageRecords(job_cards, query, rand, t) ==
  IF job_cards = <<>> THEN <<>>
  ELSE LET job_data == _extract_job_data(Head(job_cards), rand, t)
           rest     == PageRecords(Tail(job_cards), query, rand, t)
       IN  IF job_data = None THEN rest
           ELSE <<[job_data |-> job_data @@ [search_query |-> query],
                   card |-> Head(job_cards)]>> \o rest

\* the card lists a loaded page may show: one card, and three cards of which
\* the first is dropped
CardLists == {<<TitleOnlyCard>>, <<StaleCard, FullCard, TitleOnlyCard>>}

\* the page shows cards: each is extracted and collected
PageWithCards ==
  /\ Navigate("cards")
  /\ \E job_cards \in CardLists, rand \in RandomTokens :
       LET recs == PageRecords(job_cards, job_queries[qi], rand, clock)
       IN  /\ jobs' = jobs \o [i \in 1..Len(recs) |-> recs[i].job_data]
           /\ cards' = cards \o [i \in 1..Len(recs) |-> recs[i].card]
  /\ pc' = "page"
  /\ UNCHANGED <<num_pages, job_queries, qi, pending, quit_calls>>
  /\ UNCHANGED others

\* range(1, num_pages + 1) is exhausted
PagesDone ==
  /\ pc = "page" /\ page = num_pages
  /\ pc' = "between"
  /\ UNCHANGED <<num_pages, jobs, cards, job_queries, qi, page, pending,
                 visited, quit_calls>>
  /\ UNCHANGED others

\* after a query: the delay, and with probability 1/2 a new user agent, which
\* changes nothing scrape_jobs or the exporter reads
BetweenQueries ==
  /\ pc = "between"
  /\ pc' = "query"
  /\ UNCHANGED <<num_pages, jobs, cards, job_queries, qi, page, pending, visited, quit_calls>>
  /\ UNCHANGED others

\* where an exception that leaves the query loop goes
EscapeSkipsFinally == "raised"
EscapeTarget == "finally"

\* execute_cdp_cmd raises while setting the user agent: nothing catches it
RotationRaises ==
  /\ pc = "between"
  /\ pc' = EscapeTarget /\ pending' = "raise"
  /\ UNCHANGED <<num_pages, jobs, cards, job_queries, qi, page, visited, quit_calls>>
  /\ UNCHANGED others

\* finally: self.driver.quit(), then the return or the pending exception
Finally ==
  /\ pc = "finally"
  /\ quit_calls' = quit_calls + 1
  /\ pc' = IF pending = "raise" THEN "raised" ELSE "returned"
  /\ UNCHANGED <<num_pages, jobs, cards, job_queries, qi, page, pending, visited>>
  /\ UNCHANGED others

\* driver.quit() itself raises: its exception leaves scrape_jobs
QuitRaises ==
  /\ pc = "finally"
  /\ quit_calls' = quit_calls + 1
  /\ pending' = "raise" /\ pc' = "raised"
  /\ UNCHANGED <<num_pages, jobs, cards, job_queries, qi, page, visited>>
  /\ UNCHANGED others

\* ------------------------------- a caller of scrape_jobs: one call, any input

Init ==
  /\ clock \in ClockStarts /\ ticks = 0
  /\ Constructed(MaxVisits)
  /\ ExportIdle /\ mainPc = "unused" /\ DetailsIdle /\ ExtractIdle /\ MetricsIdle /\ DismissIdle

ScrapeJobs == CallScrapeJobs(QueryInputs)

Next ==
  \/ ScrapeJobs
  \/ NextQuery \/ QueriesDone
  \/ PageRaises \/ PageTimeout \/ PageNoCards \/ PageWithCards \/ PagesDone
  \/ BetweenQueries \/ RotationRaises
  \/ Finally \/ QuitRaises

Spec == Init /\ [][Next]_vars

\* ------------------------------------------------------------ save_to_csv

FileMain == <<"j", "o", "b", "s", "t", "r", "e", "e", "t", "_", "m", "a", "l", "a", "y", "s", "i", "a", "_", "j", "o", "b", "s", "2", ".", "c", "s", "v">>
FileNoExt == <<"j", "o", "b", "s">>

\* the base filenames a caller passes: main's, and one without extension
Filenames == {FileMain, FileNoExt}

\* os.path.splitext: the extension starts at the last dot of the last path
\* component, unless only dots precede it there
splitext(p) ==
  LET sep  == Max({0} \cup {i \in 1..Len(p) : p[i] = "/"})
      dots == {i \in (sep + 1)..Len(p) : p[i] = "."}
  IN  IF dots # {} /\ \E j \in (sep + 1)..(Max(dots) - 1) : p[j] # "."
      THEN <<SubSeq(p, 1, Max(dots) - 1), SubSeq(p, Max(dots), Len(p))>>
      ELSE <<p, <<>>>>

\* f"{root}_{timestamp}{ext}"
filename_with_timestamp(filename, t) ==
  splitext(filename)[1] \o <<"_">> \o FileStamp(now(t)) \o splitext(filename)[2]

\* the keys of a collected record, in insertion order
columns ==
  <<"job_id", "job_title", "company", "location", "description", "salary", "job_type",
    "posting_date", "job_url", "industry", "skills", "scraped_date", "search_query">>

\* pd.DataFrame(self.jobs).to_csv: the header and one row per record
RowsFirstOnly(records) ==
  [header |-> columns,
   rows   |-> [i \in 1..(IF records = <<>> THEN 0 ELSE 1) |->
                 [k \in 1..Len(columns) |-> records[i][columns[k]]]]]
to_csv(records) ==
  [header |-> columns,
   rows   |-> [i \in 1..Len(records) |-> [k \in 1..Len(columns) |-> records[i][columns[k]]]]]

\* what save_to_csv gives back: None, or the path written
ReturnNone == [kind |-> "None", path |-> <<>>]
ReturnPath(p) == [kind |-> "path", path |-> p]

\* self.jobs after a save_to_csv call: the method only reads it
ClearedCollector(records) == <<>>
CollectorAfterSave(records) == records

SaveEntry(filename, outcome, ret) ==
  [at |-> clock, filename |-> filename, before |-> jobs, outcome |-> outcome, ret |-> ret]

\* an empty collector: "No jobs to save." and a bare return; otherwise the
\* table goes to the timestamped path, which is returned, or the except branch
\* prints the error and returns None
SaveToCsv(filename) ==
  /\ Len(saves) < MaxSaves
  /\ jobs' = CollectorAfterSave(jobs)
  /\ IF jobs = <<>>
     THEN /\ files' = files
          /\ saves' = Append(saves, SaveEntry(filename, "empty", ReturnNone))
     ELSE LET path == filename_with_timestamp(filename, clock)
          IN  \/ \* the table is written
                 /\ files' = (path :> to_csv(jobs)) @@ files
                 /\ saves' = Append(saves, SaveEntry(filename, "written", ReturnPath(path)))
              \/ \* to_csv raises an I/O error, before or after it created the file
                 /\ \/ files' = files
                    \/ files' = (path :> to_csv(<<>>)) @@ files
                 /\ saves' = Append(saves, SaveEntry(filename, "io error", ReturnNone))

\* ------------------------ a caller of the class: scrape_jobs and save_to_csv

\* the argument lists of this caller
ExportQueries == {<<>>, <<"data analyst">>}

InitExport ==
  /\ clock \in ClockStarts /\ ticks = 0
  /\ Constructed(1)
  /\ ExportIdle /\ mainPc = "unused" /\ DetailsIdle /\ ExtractIdle /\ MetricsIdle /\ DismissIdle

\* a second of wall-clock time passes
Tick ==
  /\ ticks < MaxTicks
  /\ clock' = clock + 1 /\ ticks' = ticks + 1
  /\ UNCHANGED <<scrapeVars, exportVars, mainPc, detailVars, extractVars, metricVars, dismissVars>>

\* save_to_csv called while scrape_jobs is not running
Save ==
  /\ pc \in {"idle", "returned", "raised"}
  /\ \E filename \in Filenames : SaveToCsv(filename)
  /\ UNCHANGED <<num_pages, cards, job_queries, pc, qi, page, pending, visited, quit_calls>>
  /\ UNCHANGED <<clockVars, mainPc, detailVars, extractVars, metricVars, dismissVars>>

ExportScrapeJobs == CallScrapeJobs(ExportQueries)

NextExport ==
  \/ ExportScrapeJobs
  \/ NextQuery \/ QueriesDone
  \/ PageRaises \/ PageTimeout \/ PageNoCards \/ PageWithCards \/ PagesDone
  \/ BetweenQueries \/ RotationRaises
  \/ Finally \/ QuitRaises
  \/ Tick
  \/ Save

SpecExport == InitExport /\ [][NextExport]_vars

\* ------------------------------------------------------------------- main

\* main's queries and page count
MainQueryList ==
  <<"data scientist", "data analyst", "software engineer", "business analyst",
    "machine learning", "data engineer">>
MainPages == 5

\* The runs of main the model follows: a prefix of main's query list and a
\* page count of at most main's, of at most MaxVisits page visits together.
MainInputs == {SubSeq(MainQueryList, 1, k) : k \in 1..Len(MainQueryList)}

InitMain ==
  /\ clock \in ClockStarts /\ ticks = 0
  /\ Constructed(MainPages) /\ num_pages >= 1 /\ num_pages <= MaxVisits
  /\ ExportIdle /\ mainPc = "scrape" /\ DetailsIdle /\ ExtractIdle /\ MetricsIdle /\ DismissIdle

\* jobs = scraper.scrape_jobs(job_queries)
MainScrapeJobs ==
  /\ mainPc = "scrape"
  /\ CallScrapeJobs(MainInputs)

\* where main goes when scrape_jobs is over: on to save_to_csv after a return,
\* out with the exception after a raise
AlwaysSave(how) == "save"
MainAfterScrape(how) == IF how = "returned" THEN "save" ELSE "crashed"

MainScrapeOver ==
  /\ mainPc = "scrape" /\ pc \in {"returned", "raised"}
  /\ mainPc' = MainAfterScrape(pc)
  /\ UNCHANGED <<clockVars, scrapeVars, exportVars, detailVars, extractVars, metricVars, dismissVars>>

\* scraper.save_to_csv("jobstreet_malaysia_jobs2.csv"), and main returns
MainSave ==
  /\ mainPc = "save"
  /\ SaveToCsv(FileMain)
  /\ mainPc' = "exit"
  /\ UNCHANGED <<num_pages, cards, job_queries, pc, qi, page, pending, visited, quit_calls>>
  /\ UNCHANGED <<clockVars, detailVars, extractVars, metricVars, dismissVars>>

NextMain ==
  \/ MainScrapeJobs
  \/ NextQuery \/ QueriesDone
  \/ PageRaises \/ PageTimeout \/ PageNoCards \/ PageWithCards \/ PagesDone
  \/ BetweenQueries \/ RotationRaises
  \/ Finally \/ QuitRaises
  \/ MainScrapeOver
  \/ MainSave

SpecMain == InitMain /\ [][NextMain]_vars

\* ----------------------------------------------------- scrape_job_details

\* The driver's browsing contexts: handles lists the open ones in the order
\* window_handles reports them, focus is the one the driver is switched to.
\* driver.close() closes the context in focus; focus then names a closed context
\* until switch_to.window succeeds.
Primary == "primary"
Auxiliary == "auxiliary"

\* no value returned yet
NoDetails == [full_description |-> ""]

Closed(h) == SelectSeq(handles, LAMBDA w : w # h)

InitDetails ==
  /\ clock \in ClockStarts /\ ticks = 0
  /\ dpc = "idle" /\ handles = <<Primary>> /\ focus = Primary /\ opened = FALSE
  /\ details = NoDetails
  /\ ScrapeIdle /\ ExportIdle /\ mainPc = "unused" /\ ExtractIdle /\ MetricsIdle /\ DismissIdle

detailOthers == <<clockVars, scrapeVars, exportVars, mainPc, extractVars, metricVars, dismissVars>>

\* the call, and execute_script("window.open(...)"): the new tab opens
OpenTab ==
  /\ dpc = "idle"
  /\ handles' = Append(handles, Auxiliary) /\ opened' = TRUE
  /\ dpc' = "switch"
  /\ UNCHANGED <<focus, details, detailOthers>>

\* execute_script raises and no tab opens
OpenTabRaises ==
  /\ dpc = "idle"
  /\ dpc' = "except"
  /\ UNCHANGED <<handles, focus, opened, details, detailOthers>>

\* the script returns but the browser opened nothing: window_handles[1] raises
\* IndexError
OpenTabBlocked ==
  /\ dpc = "idle"
  /\ dpc' = "except"
  /\ UNCHANGED <<handles, focus, opened, details, detailOthers>>

\* switch_to.window(window_handles[1])
SwitchToTab ==
  /\ dpc = "switch"
  /\ focus' = handles[2]
  /\ dpc' = "wait"
  /\ UNCHANGED <<handles, opened, details, detailOthers>>

SwitchToTabRaises ==
  /\ dpc = "switch"
  /\ dpc' = "except"
  /\ UNCHANGED <<handles, focus, opened, details, detailOthers>>

\* WebDriverWait(...).until(presence of the detail marker)
WaitForMarker ==
  /\ dpc = "wait"
  /\ dpc' = "scroll"
  /\ UNCHANGED <<handles, focus, opened, details, detailOthers>>

WaitTimesOut ==
  /\ dpc = "wait"
  /\ dpc' = "except"
  /\ UNCHANGED <<handles, focus, opened, details, detailOthers>>

\* self._human_like_scroll()
Scroll ==
  /\ dpc = "scroll"
  /\ dpc' = "read"
  /\ UNCHANGED <<handles, focus, opened, details, detailOthers>>

ScrollRaises ==
  /\ dpc = "scroll"
  /\ dpc' = "except"
  /\ UNCHANGED <<handles, focus, opened, details, detailOthers>>

\* the value of a labelled field: its text, or the default on NoSuchElementException
detail_of(present, text, default) == IF present THEN text ELSE default

\* the five lookups: each element is there or not; find_elements gives the
\* skill tags, possibly none
ReadFields ==
  /\ dpc = "read"
  /\ \E d, e, q, y, k \in BOOLEAN :
       details' =
         [full_description    |-> detail_of(d, "Full text", "Failed to retrieve full description"),
          experience_level    |-> detail_of(e, "Senior", "Not specified"),
          qualification       |-> detail_of(q, "Degree", "Not specified"),
          years_of_experience |-> detail_of(y, "5 years", "Not specified"),
          required_skills     |-> detail_of(k, "sql, excel", "")]
  /\ dpc' = "close"
  /\ UNCHANGED <<handles, focus, opened, detailOthers>>

\* a lookup raises something other than NoSuchElementException
ReadFieldsRaises ==
  /\ dpc = "read"
  /\ dpc' = "except"
  /\ UNCHANGED <<handles, focus, opened, details, detailOthers>>

\* self.driver.close()
CloseTab ==
  /\ dpc = "close"
  /\ handles' = Closed(focus)
  /\ dpc' = "back"
  /\ UNCHANGED <<focus, opened, details, detailOthers>>

CloseTabRaises ==
  /\ dpc = "close"
  /\ dpc' = "except"
  /\ UNCHANGED <<handles, focus, opened, details, detailOthers>>

\* switch_to.window(window_handles[0]), and the details are returned
SwitchBack ==
  /\ dpc = "back"
  /\ focus' = handles[1]
  /\ dpc' = "returned"
  /\ UNCHANGED <<handles, opened, details, detailOthers>>

SwitchBackRaises ==
  /\ dpc = "back"
  /\ dpc' = "except"
  /\ UNCHANGED <<handles, focus, opened, details, detailOthers>>

\* what the handler returns
FailureDetails == [full_description |-> "Failed to retrieve full description"]

\* the handler's guard: close and switch back only with more than one context open
HandlerCloses(open) == Len(open) > 1

\* except Exception: the cleanup runs to its end, and the failure value is returned
Handler ==
  /\ dpc = "except"
  /\ IF HandlerCloses(handles)
     THEN /\ handles' = Closed(focus)
          /\ focus' = handles'[1]
     ELSE UNCHANGED <<handles, focus>>
  /\ dpc' = "failed"
  /\ details' = FailureDetails
  /\ UNCHANGED <<opened, detailOthers>>

\* the cleanup itself raises, in window_handles, close or switch_to.window; the
\* bare except swallows it
HandlerRaises ==
  /\ dpc = "except"
  /\ \/ UNCHANGED <<handles, focus>>
     \/ Len(handles) > 1 /\ handles' = Closed(focus) /\ UNCHANGED focus
  /\ dpc' = "failed"
  /\ details' = FailureDetails
  /\ UNCHANGED <<opened, detailOthers>>

NextDetails ==
  \/ OpenTab \/ OpenTabRaises \/ OpenTabBlocked
  \/ SwitchToTab \/ SwitchToTabRaises
  \/ WaitForMarker \/ WaitTimesOut
  \/ Scroll \/ ScrollRaises
  \/ ReadFields \/ ReadFieldsRaises
  \/ CloseTab \/ CloseTabRaises
  \/ SwitchBack \/ SwitchBackRaises
  \/ Handler \/ HandlerRaises

SpecDetails == InitDetails /\ [][NextDetails]_vars

\* ------------------------------------ _extract_job_data called on its own

InitExtract ==
  /\ clock \in ClockStarts /\ ticks = 0
  /\ exCard \in AllCards
  /\ exPc = "ready"
  /\ exResult = None
  /\ ScrapeIdle /\ ExportIdle /\ mainPc = "unused" /\ DetailsIdle /\ MetricsIdle /\ DismissIdle

Extract ==
  /\ exPc = "ready"
  /\ \E rand \in RandomTokens : exResult' = _extract_job_data(exCard, rand, clock)
  /\ exPc' = "done"
  /\ UNCHANGED <<exCard, clockVars, scrapeVars, exportVars, mainPc, detailVars, metricVars, dismissVars>>

NextExtract == Extract

SpecExtract == InitExtract /\ [][NextExtract]_vars


\* ------------------------------------------ _extract_job_data: the industry

\* titles and descriptions that name none, one or several of the categories
TxtDigitalMarketing == <<"D", "i", "g", "i", "t", "a", "l", " ", "M", "a", "r", "k", "e", "t", "i", "n", "g", " ", "L", "e", "a", "d">>
TxtSalesEngineering == <<"S", "a", "l", "e", "s", " ", "E", "n", "g", "i", "n", "e", "e", "r", "i", "n", "g", " ", "L", "e", "a", "d">>
TxtEducationAdmin == <<"E", "D", "U", "C", "A", "T", "I", "O", "N", " ", "a", "d", "m", "i", "n", " ", "w", "o", "r", "k">>
TxtHospitalityStaff == <<"H", "o", "s", "p", "i", "t", "a", "l", "i", "t", "y", " ", "s", "t", "a", "f", "f">>

IndustryTitles ==
  {Missing, Found(TxtSeniorFinance), Found(TxtNurse), Found(TxtDigitalMarketing),
   Found(TxtSalesEngineering)}
IndustryDescriptions ==
  {Missing, Found(<<>>), Found(TxtCare), Found(TxtEducationAdmin), Found(TxtHospitalityStaff)}

\* cards whose other fields are all present
IndustryCards ==
  { Card(t1, Missing, Found(HrefId), d, ind,
         [company |-> Found(TxtAcme), location |-> Found(TxtKL), salary |-> Found(TxtSalary),
          job_type |-> Found(TxtFullTime), posting_date |-> Found(TxtAgo)]) :
      t1 \in IndustryTitles, d \in IndustryDescriptions, ind \in IndustryLookups }

InitIndustry ==
  /\ clock \in ClockStarts /\ ticks = 0
  /\ exCard \in IndustryCards
  /\ exPc = "ready"
  /\ exResult = None
  /\ ScrapeIdle /\ ExportIdle /\ mainPc = "unused" /\ DetailsIdle /\ MetricsIdle /\ DismissIdle

SpecIndustry == InitIndustry /\ [][NextExtract]_vars

\* ---------------------------------------------------------------- metrics.py

\* the largest count handed to a rate function
MaxCount == 4
\* the longest list of session durations
MaxSessions == 3

Abs(n) == IF n < 0 THEN 0 - n ELSE n

RECURSIVE GCD(_, _)
GCD(a, b) == IF b = 0 THEN a ELSE GCD(b, a % b)

\* what a division by zero raises
ZeroDivisionError == [raised |-> "ZeroDivisionError"]

\* the value of the integer n
Number(n) == [num |-> n, den |-> 1]

\* a / b: the quotient, kept in lowest terms with a positive denominator
TrueDiv(a, b) ==
  IF b = 0 THEN ZeroDivisionError
  ELSE LET g == GCD(Abs(a), Abs(b))
           s == IF b < 0 THEN 0 - 1 ELSE 1
       IN  [num |-> (s * a) \div g, den |-> (s * b) \div g]

RECURSIVE sum(_)
sum(session_durations) ==
  IF session_durations = <<>> THEN 0
  ELSE Head(session_durations) + sum(Tail(session_durations))

CtrGuardsClicks(impressions, clicks) ==
  IF clicks > 0 THEN TrueDiv(clicks, impressions) ELSE Number(0)
calculate_ctr(impressions, clicks) ==
  IF impressions > 0 THEN TrueDiv(clicks, impressions) ELSE Number(0)

calculate_application_rate(clicks, applications) ==
  IF clicks > 0 THEN TrueDiv(applications, clicks) ELSE Number(0)

calculate_time_spent(session_durations) ==
  IF session_durations # <<>>
  THEN TrueDiv(sum(session_durations), Len(session_durations))
  ELSE Number(0)

\* the arguments of the calls: counts, one of them negative, and duration lists
Counts == (0 - 1)..MaxCount
Durations == {0, 10, 20, 30}
SessionLists == UNION {[1..n -> Durations] : n \in 0..MaxSessions}

MetricCalls ==
  {[fn |-> "calculate_ctr", impressions |-> i, clicks |-> c] : i \in Counts, c \in Counts}
  \cup {[fn |-> "calculate_application_rate", clicks |-> c, applications |-> a] :
          c \in Counts, a \in Counts}
  \cup {[fn |-> "calculate_time_spent", session_durations |-> d] : d \in SessionLists}

metricOthers ==
  <<mcall, clockVars, scrapeVars, exportVars, mainPc, detailVars, extractVars,
    dismissVars>>

InitMetrics ==
  /\ clock = 0 /\ ticks = 0
  /\ mcall \in MetricCalls
  /\ mpc = "ready"
  /\ mresult = None
  /\ ScrapeIdle /\ ExportIdle /\ mainPc = "unused" /\ DetailsIdle /\ ExtractIdle /\ DismissIdle

CalculateCtr ==
  /\ mpc = "ready" /\ mcall.fn = "calculate_ctr"
  /\ mresult' = calculate_ctr(mcall.impressions, mcall.clicks)
  /\ mpc' = "done"
  /\ UNCHANGED metricOthers

CalculateApplicationRate ==
  /\ mpc = "ready" /\ mcall.fn = "calculate_application_rate"
  /\ mresult' = calculate_application_rate(mcall.clicks, mcall.applications)
  /\ mpc' = "done"
  /\ UNCHANGED metricOthers

CalculateTimeSpent ==
  /\ mpc = "ready" /\ mcall.fn = "calculate_time_spent"
  /\ mresult' = calculate_time_spent(mcall.session_durations)
  /\ mpc' = "done"
  /\ UNCHANGED metricOthers

NextMetrics ==
  \/ CalculateCtr
  \/ CalculateApplicationRate
  \/ CalculateTimeSpent

SpecMetrics == InitMetrics /\ [][NextMetrics]_vars

\* ------------------------------- _accept_cookies_if_present, _close_popups

AcceptCookies == "_accept_cookies_if_present"
ClosePopups == "_close_popups"

cookie_buttons ==
  << "//button[contains(text(), 'Accept')]",
     "//button[contains(text(), 'I agree')]",
     "//button[contains(text(), 'Accept all')]",
     "//button[contains(@id, 'cookie')]",
     "//button[contains(@class, 'cookie')]" >>

close_buttons ==
  << "//button[contains(@aria-label, 'Close')]",
     "//button[contains(@class, 'close')]",
     "//div[contains(@class, 'close')]",
     "//span[contains(@class, 'close')]",
     "//button[contains(text(), 'No thanks')]" >>

buttons(r) == IF r = AcceptCookies THEN cookie_buttons ELSE close_buttons

\* the exceptions the except clause inside the loop of routine r names
CaughtInLoop(r) ==
  IF r = AcceptCookies
  THEN {"TimeoutException", "NoSuchElementException"}
  ELSE {"TimeoutException", "NoSuchElementException", "ElementClickInterceptedException"}

\* what WebDriverWait(...).until(element_to_be_clickable(...)) may raise
WaitExceptions == {"TimeoutException", "NoSuchElementException", "WebDriverException"}
\* what click() may raise
ClickExceptions == {"ElementClickInterceptedException", "StaleElementReferenceException"}

dismissOthers ==
  <<clockVars, scrapeVars, exportVars, mainPc, detailVars, extractVars, metricVars>>

InitDismiss ==
  /\ clock = 0 /\ ticks = 0
  /\ DismissIdle
  /\ ScrapeIdle /\ ExportIdle /\ mainPc = "unused" /\ DetailsIdle /\ ExtractIdle
  /\ MetricsIdle

\* the call: the loop starts at the first locator
CallDismiss(r) ==
  /\ bpc = "idle"
  /\ routine' = r /\ bi' = 1 /\ bpc' = "wait"
  /\ UNCHANGED <<tried, clicked, bret, dismissOthers>>

\* an exception raised at locator bi: one the inner clause names goes on with the
\* next locator, any other reaches the outer handler, which returns False
Raised(exc) ==
  /\ tried' = Append(tried, [locator |-> buttons(routine)[bi], outcome |-> exc])
  /\ IF exc \in CaughtInLoop(routine)
     THEN bi' = bi + 1 /\ bpc' = "wait" /\ bret' = bret
     ELSE bi' = bi /\ bpc' = "returned" /\ bret' = "False"
  /\ UNCHANGED <<routine, clicked, dismissOthers>>

\* the wait finds the button clickable
ButtonClickable ==
  /\ bpc = "wait" /\ bi <= Len(buttons(routine))
  /\ bpc' = "click"
  /\ UNCHANGED <<routine, bi, tried, clicked, bret, dismissOthers>>

\* the wait ends with an exception
WaitRaises ==
  /\ bpc = "wait" /\ bi <= Len(buttons(routine))
  /\ \E exc \in WaitExceptions : Raised(exc)

\* click() succeeds: the delay, then return True
Click ==
  /\ bpc = "click"
  /\ tried' = Append(tried, [locator |-> buttons(routine)[bi], outcome |-> "clicked"])
  /\ clicked' = clicked + 1
  /\ bpc' = "returned" /\ bret' = "True"
  /\ UNCHANGED <<routine, bi, dismissOthers>>

\* click() raises
ClickRaises ==
  /\ bpc = "click"
  /\ \E exc \in ClickExceptions : Raised(exc)

\* the loop has run out of locators: return False
ReturnFalse ==
  /\ bpc = "wait" /\ bi > Len(buttons(routine))
  /\ bpc' = "returned" /\ bret' = "False"
  /\ UNCHANGED <<routine, bi, tried, clicked, dismissOthers>>

NextDismiss ==
  \/ CallDismiss(AcceptCookies)
  \/ CallDismiss(ClosePopups)
  \/ ButtonClickable
  \/ WaitRaises
  \/ Click
  \/ ClickRaises
  \/ ReturnFalse

SpecDismiss == InitDismiss /\ [][NextDismiss]_vars
\* ----------------------------------------------------------------- claims

\* C1: whenever scrape_jobs has returned or has let an exception out, whatever
\* the page visits and the inter-query steps did, driver.quit has been called
\* (once, in the finally block), for every query list and page count.
C1_SessionReleasedOnExit ==
  /\ pc \in {"returned", "raised"} => quit_calls = 1
  /\ pc \in {"idle", "query", "page", "between", "finally"} => quit_calls = 0

\* a run that met a page timeout and then lost its session to an exception of
\* the inter-query step, with the session released
C1_Witness ==
  /\ pc = "raised" /\ quit_calls = 1
  /\ \E i \in 1..Len(visited) : visited[i].outcome = "timeout"
  /\ qi < Len(job_queries)

\* the (query, page) pairs of a call, queries in list order, pages ascending
RECURSIVE AllPages(_, _, _)
AllPages(q, nq, np) ==
  IF q > nq THEN <<>>
  ELSE [p \in 1..np |-> <<q, p>>] \o AllPages(q + 1, nq, np)

\* C7 (as claimed): when scrape_jobs has returned normally, every page 1..num_pages
\* of every query has been navigated exactly once, in order, whatever the
\* outcome of each visit (timeout, no cards, exception).
C7_EveryPageNavigatedOnce ==
  pc = "returned" =>
    /\ [i \in 1..Len(visited) |-> <<visited[i].qi, visited[i].page>>]
         = AllPages(1, Len(job_queries), num_pages)
    /\ \A i \in 1..Len(visited) :
         visited[i].url = _build_search_url(job_queries[visited[i].qi], visited[i].page)

FieldNames ==
  {"job_id", "job_title", "company", "location", "description", "salary", "job_type",
   "posting_date", "job_url", "industry", "skills", "search_query", "scraped_date"}

IsMissing(lookup) == lookup.kind = "missing"

\* the random fallback token of job_id: "job_" and five digits
IsFallbackId(id) ==
  /\ Len(id) = 9
  /\ SubSeq(id, 1, 4) = <<"j", "o", "b", "_">>
  /\ \A k \in 5..9 : IsDigit(id[k])

\* every field but industry: present, and the sentinel when its element is absent
DefaultsButIndustry(rec, card) ==
  /\ DOMAIN rec = FieldNames
  /\ (IsMissing(card.title1) /\ IsMissing(card.title2)) => rec.job_title = <<"N", "/", "A">>
  /\ \A f \in TextFields : IsMissing(card[f]) => rec[f] = <<"N", "/", "A">>
  /\ IsMissing(card.link) => (rec.job_url = <<"N", "/", "A">> /\ IsFallbackId(rec.job_id))
  /\ IsMissing(card.description) => rec.skills = NotSpecified

\* C8 (as claimed): every collected record carries every field, and each field
\* whose element was absent from its card holds the sentinel, industry included;
\* so a title-only card gives the default in every field but the title.
C8_AbsentFieldsHoldSentinel ==
  \A i \in 1..Len(jobs) :
    /\ DefaultsButIndustry(jobs[i], cards[i])
    /\ IsMissing(cards[i].industry) => jobs[i].industry = NotSpecified

\* C8 (amended): every collected record carries every field, and each field
\* whose element was absent holds the sentinel, except industry: without an
\* industry element it is the sentinel only when no listed category occurs in
\* the title or the description, and otherwise a listed category that does.
C8_AbsentFieldsHoldSentinelOrInferred ==
  \A i \in 1..Len(jobs) :
    /\ DefaultsButIndustry(jobs[i], cards[i])
    /\ IsMissing(cards[i].industry) =>
         LET occurs(c) == \/ Contains(lower(c), lower(jobs[i].job_title))
                          \/ Contains(lower(c), lower(jobs[i].description))
             listed == {categories[k] : k \in 1..Len(categories)}
         IN  IF \E c \in listed : occurs(c)
             THEN jobs[i].industry \in listed /\ occurs(jobs[i].industry)
             ELSE jobs[i].industry = NotSpecified

\* two page visits have fed the collector, and a title-only card titled
\* "Senior Finance Manager" has given industry "Finance"
C8_Witness ==
  /\ Len(visited) >= 2 /\ Len(jobs) >= 2
  /\ \E i \in 1..Len(jobs) :
       /\ cards[i] = TitleOnlyCard
       /\ jobs[i].industry = <<"F", "i", "n", "a", "n", "c", "e">>
       /\ jobs[i].company = <<"N", "/", "A">>

\* the text the claimed fallback rule gives a field: the stripped text of the
\* first lookup, in order, that finds an element with non-empty text, else "N/A"
RECURSIVE FirstNonEmpty(_)
FirstNonEmpty(lookups) ==
  IF lookups = <<>> THEN <<"N", "/", "A">>
  ELSE IF Head(lookups).kind = "found" /\ strip(Head(lookups).text) # <<>>
       THEN strip(Head(lookups).text)
       ELSE FirstNonEmpty(Tail(lookups))

\* C9 (as claimed): each text field of a returned record is the text of the
\* first locator strategy that gives non-empty text, and "N/A" when none does
\* (element missing or its text empty); so no text field is the empty string.
C9_FirstNonEmptyOrSentinel ==
  (exPc = "done" /\ exResult # None) =>
    /\ exResult.job_title = FirstNonEmpty(<<exCard.title1, exCard.title2>>)
    /\ \A f \in TextFields : exResult[f] = FirstNonEmpty(<<exCard[f]>>)
    /\ \A f \in TextFields \cup {"job_title"} : exResult[f] # <<>>

\* the vocabulary terms, from the k-th on, whose lowercase form occurs in text
RECURSIVE TermsIn(_, _)
TermsIn(k, text) ==
  IF k > Len(common_skills) THEN <<>>
  ELSE (IF Contains(lower(common_skills[k]), lower(text)) THEN <<common_skills[k]>> ELSE <<>>)
         \o TermsIn(k + 1, text)

SkillsText(terms) == IF terms = <<>> THEN NotSpecified ELSE join(<<",", " ">>, terms)

\* C10 (as claimed): the skills of an extracted record are the terms of the
\* ten-term vocabulary that occur in the title or the description of the card,
\* all of them, in vocabulary order, comma-joined, or the sentinel for none.
C10_SkillsFromTitleAndDescription ==
  (exPc = "done" /\ exResult # None) =>
    exResult.skills =
      SkillsText(TermsIn(1, exResult.job_title \o <<" ">> \o exResult.description))

\* C10 (amended): the skills of an extracted record are the terms of the
\* ten-term vocabulary that occur in the description of the card (the title is
\* not searched), all of them, in vocabulary order, comma-joined, or the
\* sentinel for none; a description holding "python" and "leadership" and no
\* other term gives exactly "python, leadership".
C10_SkillsFromDescription ==
  (exPc = "done" /\ exResult # None) =>
    /\ Len(common_skills) = 10
    /\ exResult.skills = SkillsText(TermsIn(1, exResult.description))
    /\ exCard.description = Found(TxtPyLead) =>
         exResult.skills = <<"p", "y", "t", "h", "o", "n", ",", " ",
                             "l", "e", "a", "d", "e", "r", "s", "h", "i", "p">>

\* a card titled "Python Developer" whose description names python and
\* leadership has been extracted
C10_Witness ==
  /\ exPc = "done" /\ exResult # None
  /\ exCard.title1 = Found(TxtPythonDev)
  /\ exCard.description = Found(TxtPyLead)
  /\ exResult.skills = <<"p", "y", "t", "h", "o", "n", ",", " ",
                         "l", "e", "a", "d", "e", "r", "s", "h", "i", "p">>

Written(i) == saves[i].outcome = "written"

\* C3: two successful save_to_csv calls with the same base filename, made at
\* least one second apart on a non-empty collector, return two distinct paths,
\* and both files are in storage (the second has not replaced the first).
C3_DistinctPaths ==
  \A i, j \in 1..Len(saves) :
    ( /\ i < j /\ Written(i) /\ Written(j)
      /\ saves[i].filename = saves[j].filename
      /\ saves[j].at - saves[i].at >= 1 )
    => /\ saves[i].ret.path # saves[j].ret.path
       /\ {saves[i].ret.path, saves[j].ret.path} \subseteq DOMAIN files

\* two successful exports of one base filename, a second or more apart
C3_Witness ==
  \E i, j \in 1..Len(saves) :
    /\ i < j /\ Written(i) /\ Written(j)
    /\ saves[i].filename = saves[j].filename
    /\ saves[j].at - saves[i].at >= 1
    /\ saves[i].before # <<>>

\* <root>_<YYYYMMDD_HHMMSS><ext> for the root and extension of filename
IsTimestamped(path, filename) ==
  LET root == splitext(filename)[1]
      ext  == splitext(filename)[2]
      n    == Len(root)
  IN  /\ Len(path) = n + 16 + Len(ext)
      /\ SubSeq(path, 1, n) = root
      /\ path[n + 1] = "_" /\ path[n + 10] = "_"
      /\ \A k \in ((n + 2)..(n + 9)) \cup ((n + 11)..(n + 16)) : IsDigit(path[k])
      /\ SubSeq(path, n + 17, Len(path)) = ext

\* C4: a save_to_csv call on an empty collector writes no file, returns no path
\* and leaves the collector unchanged; a call that succeeds on a non-empty
\* collector writes one row per record, in order, to the timestamped path it
\* returns.
C4_EmptyWritesNothing ==
  [][ Len(saves') = Len(saves) + 1 =>
        LET e == saves'[Len(saves')]
        IN  IF jobs = <<>>
            THEN e.ret.kind = "None" /\ files' = files /\ jobs' = jobs
            ELSE e.ret.kind = "path" =>
                   /\ IsTimestamped(e.ret.path, e.filename)
                   /\ e.ret.path \in DOMAIN files'
                   /\ Len(files'[e.ret.path].rows) = Len(jobs)
                   /\ \A i \in 1..Len(jobs) :
                        /\ files'[e.ret.path].rows[i][1] = jobs[i].job_id
                        /\ files'[e.ret.path].rows[i][2] = jobs[i].job_title ]_vars

\* an export of the empty collector, then a successful export of two records
C4_Witness ==
  /\ Len(saves) >= 2
  /\ saves[1].outcome = "empty" /\ saves[1].ret.kind = "None"
  /\ Written(2) /\ Len(saves[2].before) = 2
  /\ Len(files[saves[2].ret.path].rows) = 2

\* C5: a save_to_csv call that fails with an I/O error returns None (no
\* exception, no path) and leaves the collector as it was, so a later call
\* that succeeds exports those same records; the failing calls happen after
\* scrape_jobs has released the session.
C5_FailureKeepsRecords ==
  /\ [][ (Len(saves') = Len(saves) + 1 /\ saves'[Len(saves')].outcome = "io error") =>
           /\ saves'[Len(saves')].ret.kind = "None"
           /\ jobs' = jobs /\ jobs # <<>>
           /\ quit_calls = 1 ]_vars
  /\ [](\A i, j \in 1..Len(saves) :
          (i < j /\ saves[i].outcome = "io error" /\ Written(j)) =>
            saves[j].before = saves[i].before)

\* after the session was released an export failed and a later one wrote the
\* same records
C5_Witness ==
  /\ quit_calls = 1 /\ Len(saves) = 2
  /\ saves[1].outcome = "io error" /\ saves[1].ret.kind = "None"
  /\ Written(2) /\ saves[2].before = saves[1].before
  /\ files[saves[2].ret.path] = to_csv(saves[1].before)

Flushes == Cardinality({i \in 1..Len(saves) : Written(i)})

\* C6 (as claimed): when main is over, however scraping went, the records it
\* collected have been written to storage exactly once.
C6_FlushedExactlyOnce ==
  (mainPc \in {"exit", "crashed"} /\ jobs # <<>>) => Flushes = 1

\* C6 (amended): in a run of main save_to_csv is called at most once, and only
\* after scrape_jobs has returned with the session released, so the records are
\* written at most once; they are written exactly once, all of them, when
\* scrape_jobs returns with a non-empty collector and the write does not fail;
\* when an exception leaves scrape_jobs, main ends with it and nothing is
\* written.
C6_FlushedOnceAfterNormalReturn ==
  /\ Len(saves) <= 1 /\ Flushes <= 1
  /\ saves # <<>> => (pc = "returned" /\ quit_calls = 1 /\ saves[1].before = jobs)
  /\ mainPc = "exit" =>
       /\ Len(saves) = 1
       /\ (jobs # <<>> /\ saves[1].outcome # "io error") =>
            /\ Flushes = 1
            /\ Len(files[saves[1].ret.path].rows) = Len(jobs)
  /\ mainPc = "crashed" => (pc = "raised" /\ saves = <<>> /\ files = <<>>)

\* main is over after a page timed out and another gave records, which were
\* written once
C6_Witness ==
  /\ mainPc = "exit" /\ Flushes = 1 /\ jobs # <<>>
  /\ \E i \in 1..Len(visited) : visited[i].outcome = "timeout"

\* C2 (as claimed): when scrape_job_details is over, by a return or through its
\* exception handler, the auxiliary context it opened is closed, the primary one
\* is open and the driver is switched to the primary one.
C2_CleanupOnEveryExit ==
  (dpc \in {"returned", "failed"} /\ opened) =>
    /\ \A k \in 1..Len(handles) : handles[k] # Auxiliary
    /\ \E k \in 1..Len(handles) : handles[k] = Primary
    /\ focus = Primary


\* the keywords in the order the claim lists them
ListedKeywords ==
  << <<"F", "i", "n", "a", "n", "c", "e">>,
     <<"I", "T">>,
     <<"H", "e", "a", "l", "t", "h", "c", "a", "r", "e">>,
     <<"E", "d", "u", "c", "a", "t", "i", "o", "n">>,
     <<"M", "a", "n", "u", "f", "a", "c", "t", "u", "r", "i", "n", "g">>,
     <<"S", "a", "l", "e", "s">>,
     <<"M", "a", "r", "k", "e", "t", "i", "n", "g">>,
     <<"E", "n", "g", "i", "n", "e", "e", "r", "i", "n", "g">>,
     <<"A", "d", "m", "i", "n">>,
     <<"H", "o", "s", "p", "i", "t", "a", "l", "i", "t", "y">> >>

\* keyword k occurs, in lowercase, in the lowercased title or description of r
KeywordOccurs(k, r) ==
  \/ Contains(lower(ListedKeywords[k]), lower(r.job_title))
  \/ Contains(lower(ListedKeywords[k]), lower(r.description))

\* C11: when the card has no industry element, the industry of the extracted
\* record is the first keyword of the listed order whose lowercase form occurs in
\* the lowercased title or description, and the "Not specified" sentinel when no
\* keyword occurs; the title "Senior Finance Manager" with an empty description
\* gives "Finance".
C11_IndustryIsFirstKeyword ==
  (exPc = "done" /\ exResult # None /\ IsMissing(exCard.industry)) =>
    /\ \A k \in 1..Len(ListedKeywords) :
         (KeywordOccurs(k, exResult) /\ \A j \in 1..(k - 1) : ~KeywordOccurs(j, exResult))
           => exResult.industry = ListedKeywords[k]
    /\ (\A k \in 1..Len(ListedKeywords) : ~KeywordOccurs(k, exResult))
         => exResult.industry = <<"N", "o", "t", " ", "s", "p", "e", "c", "i", "f", "i", "e", "d">>
    /\ (exCard.title1 = Found(TxtSeniorFinance) /\ exCard.description = Found(<<>>))
         => exResult.industry = <<"F", "i", "n", "a", "n", "c", "e">>

\* a card without industry element titled "Sales Engineering Lead" whose
\* description names education and admin has been extracted: the keyword listed
\* first, "Education", is the industry although the title names later ones
C11_Witness ==
  /\ exPc = "done" /\ exResult # None /\ IsMissing(exCard.industry)
  /\ exCard.title1 = Found(TxtSalesEngineering)
  /\ exCard.description = Found(TxtEducationAdmin)
  /\ exResult.industry = <<"E", "d", "u", "c", "a", "t", "i", "o", "n">>

\* the result r is the quotient a / b
IsQuotient(r, a, b) ==
  /\ DOMAIN r = {"num", "den"}
  /\ r.den # 0
  /\ r.num * b = a * r.den

\* the total of a list of durations, added from the last one
RECURSIVE Total(_)
Total(d) == IF Len(d) = 0 THEN 0 ELSE Total(SubSeq(d, 1, Len(d) - 1)) + d[Len(d)]

\* C12: no metric function divides by zero; calculate_ctr is clicks/impressions
\* when impressions > 0 and 0 when impressions is 0, calculate_application_rate
\* is applications/clicks when clicks > 0 and 0 when clicks is 0, and
\* calculate_time_spent is the mean of a non-empty list and 0 for the empty one,
\* 20 for [10, 20, 30].
C12_GuardedQuotients ==
  mpc = "done" =>
    /\ mresult # ZeroDivisionError
    /\ mcall.fn = "calculate_ctr" =>
         /\ mcall.impressions > 0 => IsQuotient(mresult, mcall.clicks, mcall.impressions)
         /\ mcall.impressions = 0 => IsQuotient(mresult, 0, 1)
    /\ mcall.fn = "calculate_application_rate" =>
         /\ mcall.clicks > 0 => IsQuotient(mresult, mcall.applications, mcall.clicks)
         /\ mcall.clicks = 0 => IsQuotient(mresult, 0, 1)
    /\ mcall.fn = "calculate_time_spent" =>
         LET d == mcall.session_durations
         IN  /\ d # <<>> => IsQuotient(mresult, Total(d), Len(d))
             /\ d = <<>> => IsQuotient(mresult, 0, 1)
             /\ d = <<10, 20, 30>> => IsQuotient(mresult, 20, 1)

\* calculate_ctr has been called with no impressions and some clicks and has
\* returned 0
C12_Witness ==
  /\ mpc = "done" /\ mcall.fn = "calculate_ctr"
  /\ mcall.impressions = 0 /\ mcall.clicks > 0
  /\ mresult = [num |-> 0, den |-> 1]

\* C13 (as claimed): when a dismiss routine has returned, it has tried its
\* locators in the listed order, at most one click has succeeded, True was
\* returned right after the first click that succeeded, False was returned only
\* after every locator of the list had been tried without a click, and nothing
\* was raised to the caller.
C13_FalseOnlyAfterEveryLocator ==
  bpc = "returned" =>
    /\ bret \in {"True", "False"}
    /\ Len(tried) <= Len(buttons(routine))
    /\ \A i \in 1..Len(tried) : tried[i].locator = buttons(routine)[i]
    /\ clicked <= 1
    /\ \A i \in 1..Len(tried) : tried[i].outcome = "clicked" => i = Len(tried)
    /\ bret = "True" <=> (tried # <<>> /\ tried[Len(tried)].outcome = "clicked")
    /\ bret = "False" =>
         /\ Len(tried) = Len(buttons(routine))
         /\ \A i \in 1..Len(tried) : tried[i].outcome # "clicked"
====
